---- MODULE Spec2Model ----
(***************************************************************************)
(* goblib::stdmap: a std::map work-alike kept as a sorted std::vector of   *)
(* (key, value) pairs.  Two revisions of the header are modelled:          *)
(*   rev = "hpp"  src/src/gob_stdmap.hpp    (members _v, _compare_key)      *)
(*   rev = "p2"   src/unnamed/part_002      (derives from vector and       *)
(*                                           compare_less)                 *)
(* Positions (iterators) are 0-based offsets from begin(); end() is the    *)
(* length of the vector.  The entry at position p of a sequence s is       *)
(* s[p + 1].                                                               *)
(***************************************************************************)
EXTENDS Integers, Sequences, FiniteSets, TLC

\* ---- bounds ----
MaxKey == 3
MaxVal == 1
MaxLen == 3
MaxRange == 2

Keys == 1..MaxKey
\* T() of an int is 0: the value operator[] inserts
DefaultT == 0
Values == DefaultT..MaxVal
Entry(k, x) == [first |-> k, second |-> x]
Entries == { Entry(k, x) : k \in Keys, x \in Values }
\* the ranges [first, last) handed to insert(first, last): up to MaxRange
\* entries with keys in any order, repeated or not, the values of neighbouring
\* entries different
RangeOf(ks, o) == [i \in 1..Len(ks) |-> Entry(ks[i], (o + i - 1) % (MaxVal + 1))]
Ranges == { RangeOf(ks, o) : ks \in UNION { [1..n -> Keys] : n \in 0..MaxRange }, o \in Values }

\* v and comp are the entries and the comparator object of the map the calls
\* are made on (*this); o and o_comp are those of a second map o, the argument
\* of the copy / move constructors, of operator= and of swap
VARIABLES rev, v, comp, o, o_comp, ref, last
vars == <<rev, v, comp, o, o_comp, ref, last>>

\* ---- comparator ----
\* the states of a comparator object: ascending (what Compare() constructs,
\* std::less) and descending
Comparators == {"less", "greater"}
DefaultCompare == "less"
\* a comparator under which different key values can be equivalent, as the
\* string comparison of two pointers is: it orders keys by their class
CoarseCompare == "coarse"
KeyClass(a) == a \div 2
\* c(a, b) for a comparator object in state c
CompareWith(c, a, b) ==
    IF c = "less" THEN a < b
    ELSE IF c = "greater" THEN b < a
    ELSE KeyClass(a) < KeyClass(b)
\* _compare_key(a, b): the comparator object of *this
Compare(a, b) == CompareWith(comp, a, b)
\* key inequality by value instead of by the comparator
ne_key_identity(a, b) == a # b

ne_key(a, b) == Compare(a, b) \/ Compare(b, a)
eq_key(a, b) == ~ne_key(a, b)
\* compare_less<K,T,Compare>::operator() on keys (part_002)
compare_less(a, b) == Compare(a, b)

\* ---- std::vector / <algorithm> primitives the header calls ----
end(s) == Len(s)
vec_insert(s, pos, x) == SubSeq(s, 1, pos) \o <<x>> \o SubSeq(s, pos + 1, Len(s))
vec_erase(s, first, lst) == SubSeq(s, 1, first) \o SubSeq(s, lst + 1, Len(s))

RECURSIVE std_lower_bound(_, _, _, _)
std_lower_bound(s, first, len, key) ==
    IF len <= 0 THEN first
    ELSE LET half == len \div 2
             middle == first + half
         IN IF Compare(s[middle + 1].first, key)
            THEN std_lower_bound(s, middle + 1, len - half - 1, key)
            ELSE std_lower_bound(s, first, half, key)

RECURSIVE std_upper_bound(_, _, _, _)
std_upper_bound(s, first, len, key) ==
    IF len <= 0 THEN first
    ELSE LET half == len \div 2
             middle == first + half
         IN IF Compare(key, s[middle + 1].first)
            THEN std_upper_bound(s, first, half, key)
            ELSE std_upper_bound(s, middle + 1, len - half - 1, key)

\* the pair of positions equal_range returns
Range(first, second) == [first |-> first, second |-> second]

\* std::equal_range (part_002 calls it)
RECURSIVE std_equal_range(_, _, _, _)
std_equal_range(s, first, len, key) ==
    IF len <= 0 THEN Range(first, first)
    ELSE LET half == len \div 2
             middle == first + half
         IN IF Compare(s[middle + 1].first, key)
            THEN std_equal_range(s, middle + 1, len - half - 1, key)
            ELSE IF Compare(key, s[middle + 1].first)
                 THEN std_equal_range(s, first, half, key)
                 ELSE Range(std_lower_bound(s, first, half, key),
                            std_upper_bound(s, middle + 1, len - half - 1, key))

\* ---- lookup (both revisions) ----
lower_bound(s, key) == std_lower_bound(s, 0, Len(s), key)

\* upper_bound that stops at the first key not less than key
upper_bound_not_less(s, key) == std_lower_bound(s, 0, Len(s), key)

upper_bound(s, key) == std_upper_bound(s, 0, Len(s), key)

\* equal_range that always returns an empty range
equal_range_empty(s, key) == Range(lower_bound(s, key), lower_bound(s, key))

equal_range(s, key) == Range(lower_bound(s, key), upper_bound(s, key))
p2_equal_range(s, key) == std_equal_range(s, 0, Len(s), key)

find(s, key) ==
    LET it == lower_bound(s, key)
    IN IF it # end(s) /\ eq_key(s[it + 1].first, key) THEN it ELSE end(s)

p2_find(s, key) ==
    LET it == lower_bound(s, key)
    IN IF it # end(s) /\ compare_less(key, s[it + 1].first) THEN end(s) ELSE it

count(s, key) == IF find(s, key) # end(s) THEN 1 ELSE 0
p2_count(s, key) == IF p2_find(s, key) # end(s) THEN 1 ELSE 0

\* ---- results: the vector afterwards, the returned position / flag /   ----
\* ---- count / value, and whether the out-of-range failure was raised   ----
Result(s, pos, flag, n, val, fail) ==
    [v |-> s, pos |-> pos, flag |-> flag, n |-> n, val |-> val, fail |-> fail]
\* a field the call does not produce
None == 0 - 1
\* the result of a lookup: a position, or the two positions of equal_range
Lookup(s, pos, pos2) ==
    [v |-> s, pos |-> pos, pos2 |-> pos2, flag |-> FALSE, n |-> 0, val |-> None,
     fail |-> FALSE]

\* ---- element access ----
\* at that inserts a default entry for a missing key, as operator[] does
at_impl_inserting(s, key) ==
    LET it == lower_bound(s, key)
    IN IF it = end(s) \/ ne_key(s[it + 1].first, key)
       THEN Result(vec_insert(s, it, Entry(key, DefaultT)), it, FALSE, 0, DefaultT, FALSE)
       ELSE Result(s, it, FALSE, 0, s[it + 1].second, FALSE)

at_impl(s, key) ==
    LET it == find(s, key)
    IN IF it # end(s) /\ eq_key(s[it + 1].first, key)
       THEN Result(s, it, FALSE, 0, s[it + 1].second, FALSE)
       ELSE Result(s, None, FALSE, 0, None, TRUE)

p2_at_impl(s, key) ==
    LET it == p2_find(s, key)
    IN IF it # end(s)
       THEN Result(s, it, FALSE, 0, s[it + 1].second, FALSE)
       ELSE Result(s, None, FALSE, 0, None, TRUE)

\* ---- modifiers ----
clear(s) == Result(<<>>, None, FALSE, 0, None, FALSE)

\* insert that appends instead of inserting at the lower bound
insert_append(s, x) ==
    LET it == lower_bound(s, x.first)
    IN IF it = end(s) \/ ne_key(s[it + 1].first, x.first)
       THEN Result(Append(s, x), end(s), TRUE, 0, None, FALSE)
       ELSE Result(s, it, FALSE, 0, None, FALSE)

\* insert that never checks the key found at the lower bound
insert_unchecked(s, x) ==
    LET it == lower_bound(s, x.first)
    IN Result(vec_insert(s, it, x), it, TRUE, 0, None, FALSE)

\* insert that stores the entry over the one at the lower bound, shifting
\* nothing
insert_in_place(s, x) ==
    LET it == lower_bound(s, x.first)
    IN IF it = end(s)
       THEN Result(Append(s, x), it, TRUE, 0, None, FALSE)
       ELSE IF ne_key(s[it + 1].first, x.first)
            THEN Result([s EXCEPT ![it + 1] = x], it, TRUE, 0, None, FALSE)
            ELSE Result(s, it, FALSE, 0, None, FALSE)

\* insert that overwrites the value of a key already stored
insert_assign(s, x) ==
    LET it == lower_bound(s, x.first)
    IN IF it = end(s) \/ ne_key(s[it + 1].first, x.first)
       THEN Result(vec_insert(s, it, x), it, TRUE, 0, None, FALSE)
       ELSE Result([s EXCEPT ![it + 1] = x], it, FALSE, 0, None, FALSE)

insert(s, x) ==
    LET it == lower_bound(s, x.first)
    IN IF it = end(s) \/ ne_key(s[it + 1].first, x.first)
       THEN Result(vec_insert(s, it, x), it, TRUE, 0, None, FALSE)
       ELSE Result(s, it, FALSE, 0, None, FALSE)

p2_insert(s, x) ==
    LET it == lower_bound(s, x.first)
    IN IF it = end(s) \/ compare_less(x.first, s[it + 1].first)
       THEN Result(vec_insert(s, it, x), it, TRUE, 0, None, FALSE)
       ELSE Result(s, it, FALSE, 0, None, FALSE)

\* emplace that constructs the entry at the end of the vector
emplace_append(s, key, val) ==
    LET x == Entry(key, val)
        it == lower_bound(s, x.first)
    IN IF it = end(s) \/ ne_key(s[it + 1].first, x.first)
       THEN Result(Append(s, x), end(s), TRUE, 0, None, FALSE)
       ELSE Result(s, it, FALSE, 0, None, FALSE)

\* emplace that searches with upper_bound
emplace_upper(s, key, val) ==
    LET x == Entry(key, val)
        it == upper_bound(s, x.first)
    IN IF it = end(s) \/ ne_key(s[it + 1].first, x.first)
       THEN Result(vec_insert(s, it, x), it, TRUE, 0, None, FALSE)
       ELSE Result(s, it, FALSE, 0, None, FALSE)

emplace(s, key, val) ==
    LET x == Entry(key, val)
        it == lower_bound(s, x.first)
    IN IF it = end(s) \/ ne_key(s[it + 1].first, x.first)
       THEN Result(vec_insert(s, it, x), it, TRUE, 0, None, FALSE)
       ELSE Result(s, it, FALSE, 0, None, FALSE)

p2_emplace(s, key, val) ==
    LET x == Entry(key, val)
        it == lower_bound(s, x.first)
    IN IF it = end(s) \/ compare_less(x.first, s[it + 1].first)
       THEN Result(vec_insert(s, it, x), it, TRUE, 0, None, FALSE)
       ELSE Result(s, it, FALSE, 0, None, FALSE)

\* operator[] that appends the default entry
operator_index_append(s, key) ==
    LET it == lower_bound(s, key)
    IN IF it = end(s) \/ ne_key(s[it + 1].first, key)
       THEN Result(Append(s, Entry(key, DefaultT)), end(s), FALSE, 0, DefaultT, FALSE)
       ELSE Result(s, it, FALSE, 0, s[it + 1].second, FALSE)

\* operator[]: the returned reference is the value slot at position pos
operator_index(s, key) ==
    LET it == lower_bound(s, key)
    IN IF it = end(s) \/ ne_key(s[it + 1].first, key)
       THEN Result(vec_insert(s, it, Entry(key, DefaultT)), it, FALSE, 0, DefaultT, FALSE)
       ELSE Result(s, it, FALSE, 0, s[it + 1].second, FALSE)

p2_operator_index(s, key) ==
    LET r == p2_insert(s, Entry(key, DefaultT))
    IN Result(r.v, r.pos, FALSE, 0, r.v[r.pos + 1].second, FALSE)

\* a store through the reference operator[] returned
assign_ref(s, pos, val) == [s EXCEPT ![pos + 1].second = val]

\* insert(first, last) in which a later element overwrites an earlier one
RECURSIVE insert_range_last_wins(_, _)
insert_range_last_wins(s, rng) ==
    IF rng = <<>> THEN Result(s, None, FALSE, 0, None, FALSE)
    ELSE insert_range_last_wins(insert_assign(s, Head(rng)).v, Tail(rng))

RECURSIVE insert_range(_, _)
insert_range(s, rng) ==
    IF rng = <<>> THEN Result(s, None, FALSE, 0, None, FALSE)
    ELSE insert_range(insert(s, Head(rng)).v, Tail(rng))

RECURSIVE p2_insert_range(_, _)
p2_insert_range(s, rng) ==
    IF rng = <<>> THEN Result(s, None, FALSE, 0, None, FALSE)
    ELSE p2_insert_range(p2_insert(s, Head(rng)).v, Tail(rng))

\* erase(key) that removes everything from the matching entry to the end
erase_key_tail(s, key) ==
    LET it == find(s, key)
    IN IF it # end(s) /\ eq_key(s[it + 1].first, key)
       THEN Result(vec_erase(s, it, end(s)), None, FALSE, 1, None, FALSE)
       ELSE Result(s, None, FALSE, 0, None, FALSE)

\* erase(key) that reports the removal without removing the entry
erase_key_keep(s, key) ==
    LET it == find(s, key)
    IN IF it # end(s) /\ eq_key(s[it + 1].first, key)
       THEN Result(s, None, FALSE, 1, None, FALSE)
       ELSE Result(s, None, FALSE, 0, None, FALSE)

erase_key(s, key) ==
    LET it == find(s, key)
    IN IF it # end(s) /\ eq_key(s[it + 1].first, key)
       THEN Result(vec_erase(s, it, it + 1), None, FALSE, 1, None, FALSE)
       ELSE Result(s, None, FALSE, 0, None, FALSE)

p2_erase_key(s, key) ==
    LET it == p2_find(s, key)
    IN IF it # end(s)
       THEN Result(vec_erase(s, it, it + 1), None, FALSE, 1, None, FALSE)
       ELSE Result(s, None, FALSE, 0, None, FALSE)

\* ---- construction and assignment from a range / an initializer list ----
\* stdmap(first, last, comp, alloc) and, delegating to it, stdmap(init, ...):
\* the vector is built from the range as it is
construct_range(rng) == Result(rng, None, FALSE, 0, None, FALSE)
p2_construct_range(rng) == p2_insert_range(<<>>, rng)

\* operator=(std::initializer_list<value_type>): _v = il
assign_list(s, il) == Result(il, None, FALSE, 0, None, FALSE)
p2_assign_list(s, il) == p2_insert_range(clear(s).v, il)

\* ---- copy, move, swap: operations on two maps ----
\* a map object: its entries and its comparator object
Map(s, c) == [v |-> s, comp |-> c]
\* the two maps after such an operation: *this and the argument
Both(a, b) == [this |-> a, o |-> b]

\* stdmap(const stdmap& x) and stdmap(const stdmap& x, const Allocator&)
copy_construct(x) == Both(Map(x.v, x.comp), x)
p2_copy_construct(x) == Both(Map(x.v, x.comp), x)

\* copy assignment that leaves *this as it was
copy_assign_nothing(this, x) == Both(this, x)

\* operator=(const stdmap& o)
copy_assign(this, x) == Both(Map(x.v, x.comp), x)
p2_copy_assign(this, x) == Both(Map(x.v, x.comp), x)

\* stdmap(stdmap&& x) and stdmap(stdmap&& x, const Allocator&): the vector
\* moved from is left empty
move_construct(x) == Both(Map(x.v, x.comp), Map(<<>>, x.comp))
\* part_002 default-constructs the comparator of the new map
p2_move_construct(x) == Both(Map(x.v, DefaultCompare), Map(<<>>, x.comp))

\* move assignment that leaves the source as it was
move_assign_copying(this, x) == Both(Map(x.v, x.comp), x)

\* operator=(stdmap&& o)
move_assign(this, x) == Both(Map(x.v, x.comp), Map(<<>>, x.comp))
p2_move_assign(this, x) == Both(Map(x.v, x.comp), Map(<<>>, x.comp))

\* swap that exchanges the vectors but not the comparators
swap_storage_only(this, x) == Both(Map(x.v, this.comp), Map(this.v, x.comp))

\* swap(stdmap& o); std::swap(x, y) is x.swap(y)
swap(this, x) == Both(Map(x.v, x.comp), Map(this.v, this.comp))
p2_swap(this, x) == Both(Map(x.v, x.comp), Map(this.v, this.comp))

\* ---- whole-container equality ----
\* operator== that compares the keys with == instead of the comparator
operator_eq_identical(a, b) ==
    /\ Len(a.v) = Len(b.v)
    /\ \A i \in 1..Len(a.v) :
          /\ a.v[i].first = b.v[i].first
          /\ a.v[i].second = b.v[i].second

\* operator==(a, b): sizes, then entries pairwise under a.key_comp()
operator_eq(a, b) ==
    /\ Len(a.v) = Len(b.v)
    /\ \A i \in 1..Len(a.v) :
          /\ ~(CompareWith(a.comp, a.v[i].first, b.v[i].first)
                 \/ CompareWith(a.comp, b.v[i].first, a.v[i].first))
          /\ a.v[i].second = b.v[i].second

p2_operator_eq(a, b) ==
    /\ Len(a.v) = Len(b.v)
    /\ \A i \in 1..Len(a.v) :
          /\ ~(CompareWith(a.comp, a.v[i].first, b.v[i].first)
                 \/ CompareWith(a.comp, b.v[i].first, a.v[i].first))
          /\ a.v[i].second = b.v[i].second

operator_ne(a, b) == ~operator_eq(a, b)
p2_operator_ne(a, b) == ~p2_operator_eq(a, b)

\* ---- whole-container ordering ----
\* entry comparison that never looks at the values
entry_less_keys_only(c, x, y) == CompareWith(c, x.first, y.first)

\* the entry comparison operator< hands to std::lexicographical_compare,
\* with cmp = a.key_comp() in state c
entry_less(c, x, y) ==
    IF ~(CompareWith(c, x.first, y.first) \/ CompareWith(c, y.first, x.first))
    THEN x.second < y.second
    ELSE CompareWith(c, x.first, y.first)

\* std::lexicographical_compare(first1, last1, first2, last2, comp)
RECURSIVE std_lexicographical_compare(_, _, _)
std_lexicographical_compare(c, s1, s2) ==
    IF s1 # <<>> /\ s2 # <<>>
    THEN IF entry_less(c, Head(s1), Head(s2)) THEN TRUE
         ELSE IF entry_less(c, Head(s2), Head(s1)) THEN FALSE
         ELSE std_lexicographical_compare(c, Tail(s1), Tail(s2))
    ELSE s1 = <<>> /\ s2 # <<>>

operator_lt(a, b) == std_lexicographical_compare(a.comp, a.v, b.v)
p2_operator_lt(a, b) == std_lexicographical_compare(a.comp, a.v, b.v)
operator_gt(a, b) == operator_lt(b, a)
p2_operator_gt(a, b) == p2_operator_lt(b, a)
\* operator<= that is false for equal maps
operator_le_strict(a, b) == operator_lt(a, b)

operator_le(a, b) == ~operator_gt(a, b)
p2_operator_le(a, b) == ~p2_operator_gt(a, b)
operator_ge(a, b) == ~operator_lt(a, b)
p2_operator_ge(a, b) == ~p2_operator_lt(a, b)

\* what the six operators return for a and b
Relations(a, b) ==
    [eq |-> operator_eq(a, b), ne |-> operator_ne(a, b), lt |-> operator_lt(a, b),
     gt |-> operator_gt(a, b), le |-> operator_le(a, b), ge |-> operator_ge(a, b)]
p2_Relations(a, b) ==
    [eq |-> p2_operator_eq(a, b), ne |-> p2_operator_ne(a, b),
     lt |-> p2_operator_lt(a, b), gt |-> p2_operator_gt(a, b),
     le |-> p2_operator_le(a, b), ge |-> p2_operator_ge(a, b)]
\* no comparison made
NoRelations ==
    [eq |-> FALSE, ne |-> FALSE, lt |-> FALSE, gt |-> FALSE, le |-> FALSE, ge |-> FALSE]

erase_pos(s, position) ==
    Result(vec_erase(s, position, position + 1), position, FALSE, 0, None, FALSE)

\* erase(first, last) that returns the old position of last
erase_range_returns_last(s, first, lst) ==
    Result(vec_erase(s, first, lst), lst, FALSE, 0, None, FALSE)

erase_range(s, first, lst) ==
    Result(vec_erase(s, first, lst), first, FALSE, 0, None, FALSE)

\* ---- hinted insertion ----
insert_hint(s, position, x) ==
    LET it == IF position = end(s) THEN position ELSE lower_bound(s, x.first)
    IN IF it = end(s) \/ ne_key(s[it + 1].first, x.first)
       THEN Result(vec_insert(s, it, x), it, FALSE, 0, None, FALSE)
       ELSE Result(s, it, FALSE, 0, None, FALSE)

\* hinted insert that validates the hint against its predecessor only
p2_insert_hint_left_only(s, position, x) ==
    IF position = 0 \/ compare_less(s[position].first, x.first)
    THEN Result(vec_insert(s, position, x), position, FALSE, 0, None, FALSE)
    ELSE LET r == p2_insert(s, x)
         IN Result(r.v, r.pos, FALSE, 0, None, FALSE)

p2_insert_hint(s, position, x) ==
    IF /\ (position = 0 \/ compare_less(s[position].first, x.first))
       /\ (position = end(s) \/ compare_less(x.first, s[position + 1].first))
    THEN Result(vec_insert(s, position, x), position, FALSE, 0, None, FALSE)
    ELSE LET r == p2_insert(s, x)
         IN Result(r.v, r.pos, FALSE, 0, None, FALSE)

\* emplace_hint that returns the position of the stored key when nothing is
\* inserted
emplace_hint_found(s, hint, key, val) ==
    LET x == Entry(key, val)
        it == IF hint = end(s) THEN hint ELSE lower_bound(s, x.first)
    IN IF it = end(s) \/ ne_key(s[it + 1].first, x.first)
       THEN Result(vec_insert(s, it, x), it, FALSE, 0, None, FALSE)
       ELSE Result(s, it, FALSE, 0, None, FALSE)

\* emplace_hint that returns the slot after the hint when nothing is inserted
emplace_hint_next(s, hint, key, val) ==
    LET x == Entry(key, val)
        it == IF hint = end(s) THEN hint ELSE lower_bound(s, x.first)
    IN IF it = end(s) \/ ne_key(s[it + 1].first, x.first)
       THEN Result(vec_insert(s, it, x), it, FALSE, 0, None, FALSE)
       ELSE Result(s, hint + 1, FALSE, 0, None, FALSE)

emplace_hint(s, hint, key, val) ==
    LET x == Entry(key, val)
        it == IF hint = end(s) THEN hint ELSE lower_bound(s, x.first)
    IN IF it = end(s) \/ ne_key(s[it + 1].first, x.first)
       THEN Result(vec_insert(s, it, x), it, FALSE, 0, None, FALSE)
       ELSE Result(s, hint, FALSE, 0, None, FALSE)

p2_emplace_hint(s, hint, key, val) ==
    LET x == Entry(key, val)
        it == IF hint = end(s) THEN hint ELSE lower_bound(s, x.first)
    IN IF it = end(s) \/ compare_less(x.first, s[it + 1].first)
       THEN Result(vec_insert(s, it, x), it, FALSE, 0, None, FALSE)
       ELSE Result(s, hint, FALSE, 0, None, FALSE)

\* ---- the reference std::map<int,int> the tests drive in lockstep ----
\* a function from the stored keys to their values
EmptyRef == [k \in {} |-> DefaultT]
ref_insert(m, x) ==
    IF \E k \in DOMAIN m : eq_key(k, x.first)
    THEN [m |-> m, flag |-> FALSE]
    ELSE [m |-> [k \in DOMAIN m \cup {x.first} |-> IF k = x.first THEN x.second ELSE m[k]],
          flag |-> TRUE]
ref_assign(m, key, val) ==
    IF \E k \in DOMAIN m : eq_key(k, key)
    THEN [k \in DOMAIN m |-> IF eq_key(k, key) THEN val ELSE m[k]]
    ELSE [k \in DOMAIN m \cup {key} |-> IF k = key THEN val ELSE m[k]]
ref_index(m, key) == ref_insert(m, Entry(key, DefaultT)).m
ref_erase(m, key) ==
    [m |-> [k \in { j \in DOMAIN m : ne_key(j, key) } |-> m[k]],
     n |-> IF \E k \in DOMAIN m : eq_key(k, key) THEN 1 ELSE 0]
ref_erase_keys(m, ks) == [k \in DOMAIN m \ ks |-> m[k]]
RECURSIVE ref_insert_range(_, _)
ref_insert_range(m, rng) ==
    IF rng = <<>> THEN m ELSE ref_insert_range(ref_insert(m, Head(rng)).m, Tail(rng))
\* ascending iteration of the reference map
RECURSIVE ref_iter(_, _)
ref_iter(m, ks) ==
    IF ks = {} THEN <<>>
    ELSE LET lo == CHOOSE k \in ks : \A j \in ks : ~Compare(j, k)
         IN <<Entry(lo, m[lo])>> \o ref_iter(m, ks \ {lo})
\* the reference map holding the entries of s
ref_of(s) == ref_insert_range(EmptyRef, s)

\* ---- the record of the last call: arguments, results, state before ----
Call(op, key, val, hint, hint2, rng, r, sflag, sn) ==
    [op |-> op, key |-> key, val |-> val, hint |-> hint, hint2 |-> hint2, rng |-> rng,
     pos |-> r.pos, pos2 |-> IF "pos2" \in DOMAIN r THEN r.pos2 ELSE None,
     rel |-> IF "rel" \in DOMAIN r THEN r.rel ELSE NoRelations,
     flag |-> r.flag, n |-> r.n, rval |-> r.val, fail |-> r.fail,
     sflag |-> sflag, sn |-> sn, pre |-> v, pre_comp |-> comp,
     o_pre |-> o, o_pre_comp |-> o_comp]

\* between two calls: the results of the previous call have been consumed
Idle ==
    [op |-> "idle", key |-> None, val |-> None, hint |-> None, hint2 |-> None,
     rng |-> <<>>, pos |-> None, pos2 |-> None, rel |-> NoRelations, flag |-> FALSE, n |-> 0, rval |-> None,
     fail |-> FALSE, sflag |-> FALSE, sn |-> 0, pre |-> <<>>,
     pre_comp |-> DefaultCompare, o_pre |-> <<>>, o_pre_comp |-> DefaultCompare]

Init ==
    /\ rev \in {"hpp", "p2"}
    /\ v = <<>>
    /\ comp = DefaultCompare
    /\ o = <<>>
    /\ o_comp = DefaultCompare
    /\ ref = EmptyRef
    /\ last = Idle

\* the caller has looked at what the call returned and goes on to its next call
Return ==
    /\ last # Idle
    /\ last' = Idle
    /\ UNCHANGED <<rev, v, comp, o, o_comp, ref>>

\* the model stores at most MaxLen entries
Fits(r) == Len(r.v) <= MaxLen

Insert ==
    /\ last = Idle
    /\ \E x \in Entries :
           LET r == IF rev = "hpp" THEN insert(v, x) ELSE p2_insert(v, x)
               s == ref_insert(ref, x)
           IN /\ Fits(r)
              /\ v' = r.v
              /\ ref' = s.m
              /\ last' = Call("insert", x.first, x.second, None, None, <<>>, r, s.flag, 0)
              /\ UNCHANGED <<rev, comp, o, o_comp>>

InsertRange ==
    /\ last = Idle
    /\ \E rng \in Ranges :
           LET r == IF rev = "hpp" THEN insert_range(v, rng) ELSE p2_insert_range(v, rng)
           IN /\ Fits(r)
              /\ v' = r.v
              /\ ref' = ref_insert_range(ref, rng)
              /\ last' = Call("insert_range", None, None, None, None, rng, r, FALSE, 0)
              /\ UNCHANGED <<rev, comp, o, o_comp>>

Emplace ==
    /\ last = Idle
    /\ \E key \in Keys, val \in Values :
           LET r == IF rev = "hpp" THEN emplace(v, key, val) ELSE p2_emplace(v, key, val)
               s == ref_insert(ref, Entry(key, val))
           IN /\ Fits(r)
              /\ v' = r.v
              /\ ref' = s.m
              /\ last' = Call("emplace", key, val, None, None, <<>>, r, s.flag, 0)
              /\ UNCHANGED <<rev, comp, o, o_comp>>

\* m[key] = val
IndexAssign ==
    /\ last = Idle
    /\ \E key \in Keys, val \in Values :
           LET r == IF rev = "hpp" THEN operator_index(v, key) ELSE p2_operator_index(v, key)
           IN /\ Fits(r)
              /\ v' = assign_ref(r.v, r.pos, val)
              /\ ref' = ref_assign(ref, key, val)
              /\ last' = Call("index_assign", key, val, None, None, <<>>, r, FALSE, 0)
              /\ UNCHANGED <<rev, comp, o, o_comp>>

\* x = m[key]
IndexRead ==
    /\ last = Idle
    /\ \E key \in Keys :
           LET r == IF rev = "hpp" THEN operator_index(v, key) ELSE p2_operator_index(v, key)
           IN /\ Fits(r)
              /\ v' = r.v
              /\ ref' = ref_index(ref, key)
              /\ last' = Call("index_read", key, None, None, None, <<>>, r, FALSE, 0)
              /\ UNCHANGED <<rev, comp, o, o_comp>>

At ==
    /\ last = Idle
    /\ \E key \in Keys :
           LET r == IF rev = "hpp" THEN at_impl(v, key) ELSE p2_at_impl(v, key)
           IN /\ v' = r.v
              /\ last' = Call("at", key, None, None, None, <<>>, r, FALSE, 0)
              /\ UNCHANGED <<rev, comp, o, o_comp, ref>>

EraseKey ==
    /\ last = Idle
    /\ \E key \in Keys :
           LET r == IF rev = "hpp" THEN erase_key(v, key) ELSE p2_erase_key(v, key)
               s == ref_erase(ref, key)
           IN /\ v' = r.v
              /\ ref' = s.m
              /\ last' = Call("erase_key", key, None, None, None, <<>>, r, FALSE, s.n)
              /\ UNCHANGED <<rev, comp, o, o_comp>>

\* erase(find(key)) on both maps, for a key both hold
ErasePos ==
    /\ last = Idle
    /\ \E key \in Keys :
           LET position == IF rev = "hpp" THEN find(v, key) ELSE p2_find(v, key)
               r == erase_pos(v, position)
           IN /\ position # end(v)
              /\ key \in DOMAIN ref
              /\ v' = r.v
              /\ ref' = ref_erase(ref, key).m
              /\ last' = Call("erase_pos", key, None, position, None, <<>>, r, FALSE, 0)
              /\ UNCHANGED <<rev, comp, o, o_comp>>

EraseRange ==
    /\ last = Idle
    /\ \E first \in 0..Len(v) :
           \E lst \in first..Len(v) :
               LET r == erase_range(v, first, lst)
               IN /\ v' = r.v
                  /\ ref' = ref_erase_keys(ref, { v[i].first : i \in (first + 1)..lst })
                  /\ last' = Call("erase_range", None, None, first, lst, <<>>, r, FALSE, 0)
                  /\ UNCHANGED <<rev, comp, o, o_comp>>

Clear ==
    LET r == clear(v)
    IN /\ last = Idle
       /\ v' = r.v
       /\ ref' = EmptyRef
       /\ last' = Call("clear", None, None, None, None, <<>>, r, FALSE, 0)
       /\ UNCHANGED <<rev, comp, o, o_comp>>

InsertHint ==
    /\ last = Idle
    /\ \E x \in Entries :
           \E position \in 0..Len(v) :
               LET r == IF rev = "hpp" THEN insert_hint(v, position, x)
                                       ELSE p2_insert_hint(v, position, x)
                   s == ref_insert(ref, x)
               IN /\ Fits(r)
                  /\ v' = r.v
                  /\ ref' = s.m
                  /\ last' = Call("insert_hint", x.first, x.second, position, None, <<>>, r, s.flag, 0)
                  /\ UNCHANGED <<rev, comp, o, o_comp>>

EmplaceHint ==
    /\ last = Idle
    /\ \E key \in Keys, val \in Values :
           \E hint \in 0..Len(v) :
               LET r == IF rev = "hpp" THEN emplace_hint(v, hint, key, val)
                                       ELSE p2_emplace_hint(v, hint, key, val)
                   s == ref_insert(ref, Entry(key, val))
               IN /\ Fits(r)
                  /\ v' = r.v
                  /\ ref' = s.m
                  /\ last' = Call("emplace_hint", key, val, hint, None, <<>>, r, s.flag, 0)
                  /\ UNCHANGED <<rev, comp, o, o_comp>>

LowerBound ==
    /\ last = Idle
    /\ \E key \in Keys :
           LET r == Lookup(v, lower_bound(v, key), None)
           IN /\ v' = r.v
              /\ last' = Call("lower_bound", key, None, None, None, <<>>, r, FALSE, 0)
              /\ UNCHANGED <<rev, comp, o, o_comp, ref>>

UpperBound ==
    /\ last = Idle
    /\ \E key \in Keys :
           LET r == Lookup(v, upper_bound(v, key), None)
           IN /\ v' = r.v
              /\ last' = Call("upper_bound", key, None, None, None, <<>>, r, FALSE, 0)
              /\ UNCHANGED <<rev, comp, o, o_comp, ref>>

EqualRange ==
    /\ last = Idle
    /\ \E key \in Keys :
           LET er == IF rev = "hpp" THEN equal_range(v, key) ELSE p2_equal_range(v, key)
               r == Lookup(v, er.first, er.second)
           IN /\ v' = r.v
              /\ last' = Call("equal_range", key, None, None, None, <<>>, r, FALSE, 0)
              /\ UNCHANGED <<rev, comp, o, o_comp, ref>>

\* the operations without a hint
Next ==
    \/ Insert
    \/ InsertRange
    \/ Emplace
    \/ IndexAssign
    \/ IndexRead
    \/ At
    \/ EraseKey
    \/ ErasePos
    \/ EraseRange
    \/ Clear
    \/ Return

Spec == Init /\ [][Next]_vars

\* ... and insert(position, const value_type&)
NextInsertHint ==
    \/ Next
    \/ InsertHint

SpecInsertHint == Init /\ [][NextInsertHint]_vars

\* ... and the bound lookups
NextLookup ==
    \/ Next
    \/ LowerBound
    \/ UpperBound
    \/ EqualRange

SpecLookup == Init /\ [][NextLookup]_vars

\* m = il
AssignList ==
    /\ last = Idle
    /\ \E il \in Ranges :
           LET r == IF rev = "hpp" THEN assign_list(v, il) ELSE p2_assign_list(v, il)
           IN /\ Fits(r)
              /\ v' = r.v
              /\ ref' = ref_insert_range(EmptyRef, il)
              /\ last' = Call("assign_list", None, None, None, None, il, r, FALSE, 0)
              /\ UNCHANGED <<rev, comp, o, o_comp>>

\* a map constructed from an iterator range or from an initializer list
InitRange ==
    /\ rev \in {"hpp", "p2"}
    /\ comp = DefaultCompare
    /\ o = <<>>
    /\ o_comp = DefaultCompare
    /\ \E rng \in Ranges, op \in {"construct_range", "construct_list"} :
           LET r == IF rev = "hpp" THEN construct_range(rng) ELSE p2_construct_range(rng)
           IN /\ v = r.v
              /\ ref = ref_insert_range(EmptyRef, rng)
              /\ last = [Idle EXCEPT !.op = op, !.rng = rng]

NextRange ==
    \/ Next
    \/ AssignList

SpecRange == InitRange /\ [][NextRange]_vars

\* the two maps after a two-map call are stored
Store(r, op) ==
    /\ v' = r.this.v
    /\ comp' = r.this.comp
    /\ o' = r.o.v
    /\ o_comp' = r.o.comp
    /\ ref' = ref_of(r.this.v)
    /\ last' = Call(op, None, None, None, None, <<>>,
                     Result(r.this.v, None, FALSE, 0, None, FALSE), FALSE, 0)
    /\ UNCHANGED rev

\* stdmap m(o) / stdmap m(o, alloc): the calls that follow are made on m
CopyConstruct ==
    /\ last = Idle
    /\ \E op \in {"copy_construct", "copy_construct_alloc"} :
           Store(IF rev = "hpp" THEN copy_construct(Map(o, o_comp))
                                ELSE p2_copy_construct(Map(o, o_comp)), op)

\* *this = o
CopyAssign ==
    /\ last = Idle
    /\ Store(IF rev = "hpp" THEN copy_assign(Map(v, comp), Map(o, o_comp))
                             ELSE p2_copy_assign(Map(v, comp), Map(o, o_comp)), "copy_assign")

\* o = *this: the same operator called on the other map
CopyAssignTo ==
    /\ last = Idle
    /\ LET r == IF rev = "hpp" THEN copy_assign(Map(o, o_comp), Map(v, comp))
                                ELSE p2_copy_assign(Map(o, o_comp), Map(v, comp))
       IN Store(Both(r.o, r.this), "copy_assign_to")

\* stdmap m(std::move(o)) / stdmap m(std::move(o), alloc)
MoveConstruct ==
    /\ last = Idle
    /\ \E op \in {"move_construct", "move_construct_alloc"} :
           Store(IF rev = "hpp" THEN move_construct(Map(o, o_comp))
                                ELSE p2_move_construct(Map(o, o_comp)), op)

\* *this = std::move(o)
MoveAssign ==
    /\ last = Idle
    /\ Store(IF rev = "hpp" THEN move_assign(Map(v, comp), Map(o, o_comp))
                             ELSE p2_move_assign(Map(v, comp), Map(o, o_comp)), "move_assign")

\* swap(o) and std::swap(*this, o)
Swap ==
    /\ last = Idle
    /\ \E op \in {"swap", "std_swap"} :
           Store(IF rev = "hpp" THEN swap(Map(v, comp), Map(o, o_comp))
                                ELSE p2_swap(Map(v, comp), Map(o, o_comp)), op)

\* two maps, each constructed empty with a comparator object
InitTwoMaps ==
    /\ rev \in {"hpp", "p2"}
    /\ v = <<>>
    /\ comp \in Comparators
    /\ o = <<>>
    /\ o_comp \in Comparators
    /\ ref = EmptyRef
    /\ last = Idle

\* entries come and go by insert(entry), operator[] and erase(key)
NextTwoMaps ==
    \/ Insert
    \/ IndexAssign
    \/ EraseKey
    \/ Return
    \/ CopyConstruct
    \/ CopyAssign
    \/ CopyAssignTo
    \/ MoveConstruct
    \/ MoveAssign
    \/ Swap

SpecTwoMaps == InitTwoMaps /\ [][NextTwoMaps]_vars

\* *this == o, != o, < o, > o, <= o, >= o
Relational ==
    /\ last = Idle
    /\ LET rel == IF rev = "hpp" THEN Relations(Map(v, comp), Map(o, o_comp))
                                  ELSE p2_Relations(Map(v, comp), Map(o, o_comp))
           r == [v |-> v, pos |-> None, rel |-> rel, flag |-> FALSE, n |-> 0,
                 val |-> None, fail |-> FALSE]
       IN /\ v' = r.v
          /\ last' = Call("relational", None, None, None, None, <<>>, r, FALSE, 0)
          /\ UNCHANGED <<rev, comp, o, o_comp, ref>>

\* two empty maps of one type, with the default or with a coarse comparator
InitRelational ==
    /\ rev \in {"hpp", "p2"}
    /\ v = <<>>
    /\ comp \in {DefaultCompare, CoarseCompare}
    /\ o = <<>>
    /\ o_comp = comp
    /\ ref = EmptyRef
    /\ last = Idle

\* entries are stored through operator[], the other map is a copy of a former
\* state of this one
NextRelational ==
    \/ IndexAssign
    \/ Clear
    \/ CopyAssignTo
    \/ Relational
    \/ Return

SpecRelational == InitRelational /\ [][NextRelational]_vars

\* a map ordered by the default comparator or by a coarse one
InitCompare ==
    /\ rev \in {"hpp", "p2"}
    /\ v = <<>>
    /\ comp \in {DefaultCompare, CoarseCompare}
    /\ o = <<>>
    /\ o_comp = DefaultCompare
    /\ ref = EmptyRef
    /\ last = Idle

SpecCompare == InitCompare /\ [][Next]_vars

\* an empty map with any of the comparators, filled by insert and emplace alone
InitArrival ==
    /\ rev \in {"hpp", "p2"}
    /\ v = <<>>
    /\ comp \in Comparators \cup {CoarseCompare}
    /\ o = <<>>
    /\ o_comp = DefaultCompare
    /\ ref = EmptyRef
    /\ last = Idle

NextArrival ==
    \/ Insert
    \/ Emplace
    \/ Return

SpecArrival == InitArrival /\ [][NextArrival]_vars

\* the same calls on the part_002 revision alone
InitP2 == Init /\ rev = "p2"
SpecP2InsertHint == InitP2 /\ [][NextInsertHint]_vars

\* insert(position, P&&): the forwarding overload, which delegates to
\* emplace_hint
InsertHintForward ==
    /\ last = Idle
    /\ \E x \in Entries :
           \E position \in 0..Len(v) :
               LET r == IF rev = "hpp" THEN emplace_hint(v, position, x.first, x.second)
                                       ELSE p2_emplace_hint(v, position, x.first, x.second)
                   s == ref_insert(ref, x)
               IN /\ Fits(r)
                  /\ v' = r.v
                  /\ ref' = s.m
                  /\ last' = Call("insert_hint_forward", x.first, x.second, position,
                                  None, <<>>, r, s.flag, 0)
                  /\ UNCHANGED <<rev, comp, o, o_comp>>

\* both hinted-insert overloads of part_002, with erase(key) and clear()
NextHintOverloads ==
    \/ InsertHint
    \/ InsertHintForward
    \/ EraseKey
    \/ Clear
    \/ Return

SpecHintOverloads == InitP2 /\ [][NextHintOverloads]_vars

\* ... and emplace_hint(hint, args...)
NextEmplaceHint ==
    \/ Next
    \/ EmplaceHint

SpecEmplaceHint == Init /\ [][NextEmplaceHint]_vars

\* ---- observations ----
size(s) == Len(s)
empty(s) == Len(s) = 0
Sorted(s) == \A i \in 1..(Len(s) - 1) : Compare(s[i].first, s[i + 1].first)
Find(s, key) == IF rev = "hpp" THEN find(s, key) ELSE p2_find(s, key)
Count(s, key) == IF rev = "hpp" THEN count(s, key) ELSE p2_count(s, key)
AtImpl(s, key) == IF rev = "hpp" THEN at_impl(s, key) ELSE p2_at_impl(s, key)
InsertOf(s, x) == IF rev = "hpp" THEN insert(s, x) ELSE p2_insert(s, x)
RelationsOf(a, b) == IF rev = "hpp" THEN Relations(a, b) ELSE p2_Relations(a, b)
EmplaceOf(s, key, val) ==
    IF rev = "hpp" THEN emplace(s, key, val) ELSE p2_emplace(s, key, val)
EraseKeyOf(s, key) == IF rev = "hpp" THEN erase_key(s, key) ELSE p2_erase_key(s, key)
\* the slots (1-based) of s whose key is equivalent to key
KeySlots(s, key) == { i \in 1..Len(s) : eq_key(s[i].first, key) }
HasKey(s, key) == KeySlots(s, key) # {}
\* does position pos of s designate an entry whose key is equivalent to key
Designates(s, pos, key) == pos >= 0 /\ pos < Len(s) /\ eq_key(s[pos + 1].first, key)

TypeOK ==
    /\ rev \in {"hpp", "p2"}
    /\ v \in Seq(Entries)
    /\ Len(v) <= MaxLen

\* ======================= claims =======================

\* C1: driven in lockstep with a reference std::map from the empty state by
\* operator[] assignments, insert(entry), emplace, erase(key), erase(find(key))
\* and clear, the container agrees with the reference after every step on
\* size(), empty(), the ascending (key, value) iteration sequence, the
\* find / count / at result of every key, and the inserted flag and erased
\* count that the calls return.
C1_AgreesWithStdMap ==
    /\ size(v) = Cardinality(DOMAIN ref)
    /\ empty(v) <=> (DOMAIN ref = {})
    /\ v = ref_iter(ref, DOMAIN ref)
    /\ \A k \in Keys :
        /\ (Find(v, k) # end(v)) <=> (k \in DOMAIN ref)
        /\ k \in DOMAIN ref => v[Find(v, k) + 1] = Entry(k, ref[k])
        /\ Count(v, k) = (IF k \in DOMAIN ref THEN 1 ELSE 0)
        /\ AtImpl(v, k).fail <=> (k \notin DOMAIN ref)
        /\ k \in DOMAIN ref => AtImpl(v, k).val = ref[k]
    /\ last.op \in {"insert", "emplace"} => last.flag = last.sflag
    /\ last.op = "erase_key" => last.n = last.sn

C1_Witness ==
    /\ last.op = "erase_pos"
    /\ Len(v) = 2
    /\ \E i \in 1..Len(v) : v[i].second # DefaultT

\* C2: in every state reachable from the empty map by insert(entry),
\* insert(first, last), emplace, operator[], erase(key), erase(position),
\* erase(first, last) and clear, the backing sequence is strictly ascending by
\* key under the comparator, no two stored keys are equivalent, and count(k)
\* is 0 or 1 for every k: the number of stored entries with a key equivalent to k.
C2_StrictlyAscending ==
    /\ Sorted(v)
    /\ \A i \in 1..Len(v) : \A j \in 1..Len(v) : i # j => ne_key(v[i].first, v[j].first)
    /\ \A k \in Keys : Count(v, k) \in {0, 1} /\ Count(v, k) = Cardinality(KeySlots(v, k))

C2_Witness ==
    /\ last.op = "insert_range"
    /\ Len(last.rng) = 2
    /\ Compare(last.rng[2].first, last.rng[1].first)
    /\ Len(v) = Len(last.pre) + 2
    /\ Len(last.pre) > 0

\* C3: for every hint position in [begin, end] and every entry, the map is
\* strictly ascending with unique keys after insert(position, const value_type&)
\* of src/src/gob_stdmap.hpp, whether the key was absent or already present.
C3_HintedInsertKeepsOrder ==
    (rev = "hpp" /\ last.op = "insert_hint" /\ Sorted(last.pre)) => Sorted(v)

\* C4: for every hint position in [begin, end] the map is strictly ascending
\* with unique keys after emplace_hint(hint, args...).
C4_EmplaceHintKeepsOrder ==
    (last.op = "emplace_hint" /\ Sorted(last.pre)) => Sorted(v)

\* is position pos a valid hint for key in s: begin or after a smaller key,
\* and end or before a greater key
ValidHint(s, pos, key) ==
    /\ (pos = 0 \/ Compare(s[pos].first, key))
    /\ (pos = Len(s) \/ Compare(key, s[pos + 1].first))

\* C5: insert(position, const value_type&) of src/unnamed/part_002 places the
\* entry exactly at the hint slot when the hint is valid and otherwise falls
\* back to the sorted insert; in both cases the contents equal what
\* insert(entry) would have produced and the returned position holds an entry
\* whose key is equivalent to the given key.
C5_ValidatedHintedInsert ==
    (rev = "p2" /\ last.op = "insert_hint") =>
        LET x == Entry(last.key, last.val)
            plain == p2_insert(last.pre, x)
        IN /\ ValidHint(last.pre, last.hint, last.key) =>
                /\ last.pos = last.hint
                /\ v = vec_insert(last.pre, last.hint, x)
           /\ ~ValidHint(last.pre, last.hint, last.key) => last.pos = plain.pos
           /\ v = plain.v
           /\ Designates(v, last.pos, last.key)
           /\ Sorted(v)

C5_Witness ==
    /\ rev = "p2"
    /\ last.op = "insert_hint"
    /\ Len(last.pre) = 2
    /\ last.hint = 1
    /\ ValidHint(last.pre, last.hint, last.key)
    /\ v[2] = Entry(last.key, last.val)

\* C6 as claimed: emplace_hint returns a position that designates an entry
\* whose key is equivalent to the given key, both when the entry was inserted
\* and when the key was already present, for every hint in [begin, end].
C6_ReturnsPositionOfKey ==
    (last.op = "emplace_hint" /\ Sorted(last.pre)) => Designates(v, last.pos, last.key)

\* C6 as amended: when emplace_hint inserts, the returned position holds the
\* new entry; when it does not insert, the key was already present, the hint
\* was not end(), the map is unchanged and the returned position is the hint's
\* own slot.  From a sorted map it inserts exactly when the hint is end() or
\* the key is absent, and a returned hint slot holds an equivalent key exactly
\* when the hint was the existing entry's position.
C6_ReturnsNewSlotOrHint ==
    last.op = "emplace_hint" =>
        /\ Len(v) = Len(last.pre) + 1 =>
              /\ Designates(v, last.pos, last.key)
              /\ v = vec_insert(last.pre, last.pos, Entry(last.key, last.val))
        /\ Len(v) # Len(last.pre) + 1 =>
              /\ v = last.pre
              /\ last.pos = last.hint
              /\ last.hint # end(last.pre)
              /\ HasKey(last.pre, last.key)
        /\ Sorted(last.pre) =>
              /\ (Len(v) = Len(last.pre) + 1)
                    <=> (last.hint = end(last.pre) \/ ~HasKey(last.pre, last.key))
              /\ v = last.pre =>
                    (Designates(v, last.pos, last.key)
                        <=> last.hint = lower_bound(last.pre, last.key))

C6_Witness ==
    /\ last.op = "emplace_hint"
    /\ Sorted(last.pre)
    /\ v = last.pre
    /\ last.pos = last.hint
    /\ ~Designates(v, last.pos, last.key)

\* C7: insert(entry) with a key already present returns (position of the
\* existing entry, false) and leaves the map unmodified: size, order and every
\* stored value are unchanged and the supplied value is discarded.
C7_DuplicateInsertKeepsFirst ==
    (last.op = "insert" /\ HasKey(last.pre, last.key)) =>
        /\ last.flag = FALSE
        /\ v = last.pre
        /\ Designates(v, last.pos, last.key)

C7_Witness ==
    /\ last.op = "insert"
    /\ HasKey(last.pre, last.key)
    /\ last.flag = FALSE
    /\ Len(v) >= 2
    /\ Designates(v, last.pos, last.key)
    /\ v[last.pos + 1].second # last.val

\* C8: emplace(key, value) returns (position, flag): the position designates
\* the entry whose key is equivalent to key and flag is true exactly when the
\* key was absent before the call; when the key was present the stored value
\* and size are unchanged, when absent size grows by one and the stored value
\* is value.
C8_EmplaceResult ==
    last.op = "emplace" =>
        /\ Designates(v, last.pos, last.key)
        /\ last.flag <=> ~HasKey(last.pre, last.key)
        /\ HasKey(last.pre, last.key) => v = last.pre
        /\ ~HasKey(last.pre, last.key) =>
              /\ Len(v) = Len(last.pre) + 1
              /\ v[last.pos + 1] = Entry(last.key, last.val)

C8_Witness ==
    /\ last.op = "emplace"
    /\ last.flag = FALSE
    /\ Designates(v, last.pos, last.key)
    /\ v[last.pos + 1].second # last.val
    /\ Len(v) >= 2

\* C9: operator[](k) never fails; on an absent key it inserts (k, default
\* value) at the sorted position, growing size by exactly one, and on a
\* present key it inserts nothing; the returned reference is the stored value
\* slot of k, so a value written through it is what find(k) and at(k) report
\* afterwards.
C9_IndexOperator ==
    last.op \in {"index_assign", "index_read"} =>
        LET pre == last.pre
            k == last.key
            it == Find(v, k)
        IN /\ ~last.fail
           /\ Designates(v, last.pos, k)
           /\ it = last.pos
           /\ Sorted(v)
           /\ ~HasKey(pre, k) =>
                 /\ Len(v) = Len(pre) + 1
                 /\ vec_erase(v, last.pos, last.pos + 1) = pre
                 /\ last.rval = DefaultT
           /\ HasKey(pre, k) =>
                 /\ Len(v) = Len(pre)
                 /\ \A i \in 1..Len(pre) : i # last.pos + 1 => v[i] = pre[i]
                 /\ last.rval = pre[last.pos + 1].second
           /\ last.op = "index_read" => v[last.pos + 1].second = last.rval
           /\ last.op = "index_assign" =>
                 /\ v[it + 1].second = last.val
                 /\ ~AtImpl(v, k).fail
                 /\ AtImpl(v, k).val = last.val

C9_Witness ==
    /\ last.op = "index_assign"
    /\ ~HasKey(last.pre, last.key)
    /\ Len(last.pre) = 2
    /\ last.pos = 1
    /\ last.val # DefaultT
    /\ AtImpl(v, last.key).val = last.val

\* C10: at(k) returns the stored value when an entry with a key equivalent to
\* k exists; when none exists it signals the out-of-range failure and leaves
\* the map exactly as it was.  No other operation reaches a failure outcome.
C10_AtFailsOnlyOnMissingKey ==
    /\ last.op = "at" =>
        /\ v = last.pre
        /\ HasKey(last.pre, last.key) =>
              /\ ~last.fail
              /\ Designates(v, last.pos, last.key)
              /\ last.rval = v[last.pos + 1].second
        /\ ~HasKey(last.pre, last.key) => last.fail
    /\ last.fail => last.op = "at"

C10_Witness ==
    /\ last.op = "at"
    /\ last.fail
    /\ Len(v) = 2
    /\ v = last.pre

\* C11: erase(key) returns 1 and removes exactly the one entry whose key is
\* equivalent to key when it is present: size decreases by exactly 1, find(key)
\* is end afterwards and all other entries keep their values and relative
\* order; it returns 0 and leaves size and contents unchanged when the key is
\* absent.
C11_EraseKey ==
    last.op = "erase_key" =>
        LET pre == last.pre
            k == last.key
        IN /\ HasKey(pre, k) =>
                 /\ last.n = 1
                 /\ Len(v) = Len(pre) - 1
                 /\ Find(v, k) = end(v)
                 /\ ~HasKey(v, k)
                 /\ \E p \in 0..(Len(pre) - 1) :
                        /\ eq_key(pre[p + 1].first, k)
                        /\ v = vec_erase(pre, p, p + 1)
           /\ ~HasKey(pre, k) =>
                 /\ last.n = 0
                 /\ v = pre

C11_Witness ==
    /\ last.op = "erase_key"
    /\ last.n = 1
    /\ Len(last.pre) = 3
    /\ eq_key(last.pre[2].first, last.key)
    /\ v = <<last.pre[1], last.pre[3]>>

\* C12: for every map state and every key k not present, insert({k, v})
\* followed by erase(k) restores the map to exactly its pre-insert size and
\* entry sequence (same keys, same values, same order).
C12_InsertEraseRoundTrip ==
    (last.op = "insert" /\ ~HasKey(last.pre, last.key)) =>
        LET r == EraseKeyOf(v, last.key)
        IN /\ last.flag
           /\ Len(v) = Len(last.pre) + 1
           /\ r.n = 1
           /\ size(r.v) = size(last.pre)
           /\ r.v = last.pre

C12_Witness ==
    /\ last.op = "insert"
    /\ ~HasKey(last.pre, last.key)
    /\ Len(last.pre) = 2
    /\ last.pos = 1
    /\ v[2] = Entry(last.key, last.val)
    /\ EraseKeyOf(v, last.key).v = last.pre

\* C13: for every key k in every sorted map state, equal_range(k) equals the
\* pair (lower_bound(k), upper_bound(k)); the range spans exactly one entry
\* when find(k) # end and zero entries when find(k) = end, and when it spans
\* one entry that entry is the one find(k) returns.
C13_EqualRange ==
    (last.op = "equal_range" /\ Sorted(last.pre)) =>
        LET k == last.key
            span == last.pos2 - last.pos
        IN /\ v = last.pre
           /\ last.pos = lower_bound(v, k)
           /\ last.pos2 = upper_bound(v, k)
           /\ Find(v, k) # end(v) => span = 1 /\ last.pos = Find(v, k)
           /\ Find(v, k) = end(v) => span = 0
           /\ span = 1 => Designates(v, last.pos, k)

C13_Witness ==
    /\ last.op = "equal_range"
    /\ Len(v) = 3
    /\ last.pos = 1
    /\ last.pos2 = 2
    /\ Find(v, last.key) = 1

\* the first position of s whose key satisfies Q, end(s) when none does
FirstSlot(s, Q(_)) ==
    IF \E i \in 1..Len(s) : Q(s[i].first)
    THEN (CHOOSE i \in 1..Len(s) :
              Q(s[i].first) /\ \A j \in 1..(i - 1) : ~Q(s[j].first)) - 1
    ELSE end(s)

\* C14: lower_bound(k) returns the first slot whose key is not less than k and
\* upper_bound(k) the first slot whose key is strictly greater than k, each
\* returning end when no such slot exists and begin when every stored key
\* qualifies; the results match a linear scan for every key, present or
\* absent, below the smallest and above the largest stored key.
C14_BoundsMatchLinearScan ==
    /\ last.op = "lower_bound" =>
          LET NotLess(x) == ~Compare(x, last.key)
          IN /\ v = last.pre
             /\ last.pos = FirstSlot(v, NotLess)
             /\ (\A i \in 1..Len(v) : NotLess(v[i].first)) => last.pos = 0
             /\ (\A i \in 1..Len(v) : ~NotLess(v[i].first)) => last.pos = end(v)
    /\ last.op = "upper_bound" =>
          LET Greater(x) == Compare(last.key, x)
          IN /\ v = last.pre
             /\ last.pos = FirstSlot(v, Greater)
             /\ (\A i \in 1..Len(v) : Greater(v[i].first)) => last.pos = 0
             /\ (\A i \in 1..Len(v) : ~Greater(v[i].first)) => last.pos = end(v)

C14_Witness ==
    /\ last.op = "upper_bound"
    /\ Len(v) = 3
    /\ HasKey(v, last.key)
    /\ last.pos = 2
    /\ lower_bound(v, last.key) = 1

\* the keys of the entries of a range
RangeKeys(rng) == { rng[i].first : i \in 1..Len(rng) }

\* C15: a map constructed (constructors of src/src/gob_stdmap.hpp) from an
\* iterator range or an initializer list whose entries arrive in any key order
\* and may repeat keys iterates in strictly ascending key order with exactly
\* one entry per distinct key, size() equals the number of distinct keys, and
\* find(k) / at(k) succeed for every key of the range.
C15_ConstructorsEstablishOrder ==
    (rev = "hpp" /\ last.op \in {"construct_range", "construct_list"}) =>
        /\ Sorted(v)
        /\ size(v) = Cardinality(RangeKeys(last.rng))
        /\ \A k \in RangeKeys(last.rng) :
              /\ Find(v, k) # end(v)
              /\ ~AtImpl(v, k).fail

\* C16: after the initializer-list assignment m = il (operator= of
\* src/src/gob_stdmap.hpp) m holds none of its previous entries and exactly one
\* entry per distinct key of il, in strictly ascending key order, for any
\* order and repetition of the keys in il.
C16_AssignListClearsAndInserts ==
    (rev = "hpp" /\ last.op = "assign_list") =>
        /\ Sorted(v)
        /\ size(v) = Cardinality(RangeKeys(last.rng))
        /\ \A i \in 1..Len(v) : \E j \in 1..Len(last.rng) : v[i] = last.rng[j]
        /\ \A k \in RangeKeys(last.rng) : Cardinality(KeySlots(v, k)) = 1

\* the value of the first entry of rng whose key is equivalent to k
FirstValue(rng, k) ==
    rng[CHOOSE i \in 1..Len(rng) :
            /\ eq_key(rng[i].first, k)
            /\ \A j \in 1..(i - 1) : ne_key(rng[j].first, k)].second

\* post is pre with the range added, the first occurrence of a key winning
FirstWins(pre, rng, post) ==
    /\ Sorted(post)
    /\ \A k \in Keys : Cardinality(KeySlots(post, k)) <= 1
    /\ \A i \in 1..Len(pre) : \E j \in 1..Len(post) : post[j] = pre[i]
    /\ \A k \in Keys : HasKey(post, k) <=> (HasKey(pre, k) \/ k \in RangeKeys(rng))
    /\ \A k \in RangeKeys(rng) :
          ~HasKey(pre, k) => \E j \in 1..Len(post) : post[j] = Entry(k, FirstValue(rng, k))

\* insert(entry) called for each element of rng in range order
RECURSIVE InsertEach(_, _)
InsertEach(s, rng) ==
    IF rng = <<>> THEN s ELSE InsertEach(InsertOf(s, Head(rng)).v, Tail(rng))

\* C17: insert(first, last), insert(initializer_list) and the range constructor
\* of src/unnamed/part_002 built on it insert each element in turn, the first
\* occurrence winning: every key already stored keeps its old value, every
\* new key of the range is stored exactly once with the value of its first
\* occurrence in the range, entries not named by the range are unchanged, and
\* the result is the same as calling insert(entry) for each element in range
\* order.
C17_RangeInsertFirstWins ==
    last.op = "insert_range" =>
        /\ FirstWins(last.pre, last.rng, v)
        /\ v = InsertEach(last.pre, last.rng)
        /\ LET c == p2_construct_range(last.rng).v
           IN rev = "p2" =>
                 /\ FirstWins(<<>>, last.rng, c)
                 /\ c = InsertEach(<<>>, last.rng)

C17_Witness ==
    /\ last.op = "insert_range"
    /\ Len(last.rng) = 2
    /\ eq_key(last.rng[1].first, last.rng[2].first)
    /\ last.rng[1].second # last.rng[2].second
    /\ Len(last.pre) = 2
    /\ ~HasKey(last.pre, last.rng[1].first)
    /\ v[2] = last.rng[1]

\* C18: move construction (with or without an allocator argument) and move
\* assignment transfer the contents: afterwards the target holds exactly the
\* source's former entries in the same order, replacing anything the target
\* held, and the source is empty with size 0.
C18_MoveTransfersContents ==
    last.op \in {"move_construct", "move_construct_alloc", "move_assign"} =>
        /\ v = last.o_pre
        /\ empty(o)
        /\ size(o) = 0

C18_Witness ==
    /\ last.op = "move_assign"
    /\ Len(last.pre) = 1
    /\ Len(last.o_pre) = 2
    /\ v = last.o_pre
    /\ v[1] # last.pre[1]
    /\ empty(o)

\* the calls that change the entries of *this alone
WriteOps == {"insert", "index_assign", "erase_key"}

\* C19: copy construction and copy assignment produce a map that compares
\* equal (operator==) to the source and has independent storage: the source
\* is left as it was, and any later insert, erase or operator[] write on one
\* of the two maps leaves the entries of the other unchanged.
C19_CopyIsEqualAndIndependent ==
    /\ [](last.op \in {"copy_construct", "copy_construct_alloc", "copy_assign"} =>
            /\ operator_eq(Map(v, comp), Map(o, o_comp))
            /\ operator_eq(Map(o, o_comp), Map(v, comp))
            /\ v = last.o_pre
            /\ comp = last.o_pre_comp
            /\ o = last.o_pre
            /\ o_comp = last.o_pre_comp)
    /\ [](last.op = "copy_assign_to" =>
            /\ operator_eq(Map(o, o_comp), Map(v, comp))
            /\ o = last.pre
            /\ v = last.pre
            /\ comp = last.pre_comp)
    /\ [][last'.op \in WriteOps => (o' = o /\ o_comp' = o_comp)]_vars

C19_Witness ==
    /\ last.op = "copy_assign"
    /\ Len(last.pre) = 1
    /\ Len(last.o_pre) = 2
    /\ last.pre_comp # last.o_pre_comp
    /\ v = o
    /\ comp = o_comp
    /\ operator_eq(Map(v, comp), Map(o, o_comp))

\* C20: a.swap(b) and std::swap(a, b) exchange the two maps: afterwards a
\* holds exactly b's former entries and comparator and b holds a's, nothing
\* is lost or duplicated, and swapping a second time restores both maps.
C20_SwapExchanges ==
    last.op \in {"swap", "std_swap"} =>
        LET again == IF rev = "hpp" THEN swap(Map(v, comp), Map(o, o_comp))
                                    ELSE p2_swap(Map(v, comp), Map(o, o_comp))
        IN /\ Map(v, comp) = Map(last.o_pre, last.o_pre_comp)
           /\ Map(o, o_comp) = Map(last.pre, last.pre_comp)
           /\ again.this = Map(last.pre, last.pre_comp)
           /\ again.o = Map(last.o_pre, last.o_pre_comp)

C20_Witness ==
    /\ last.op = "std_swap"
    /\ Len(last.pre) = 1
    /\ Len(last.o_pre) = 2
    /\ last.pre_comp # last.o_pre_comp
    /\ v = last.o_pre
    /\ o = last.pre
    /\ comp = last.o_pre_comp

\* keys a and b are equivalent under a comparator in state c
Equivalent(c, a, b) == ~CompareWith(c, a, b) /\ ~CompareWith(c, b, a)

\* C21: operator== on two maps is true exactly when they have the same size
\* and, at every index, the two entries have comparator-equivalent keys and
\* equal values; operator!= is its negation.  A map equals its copy, and stops
\* being equal to it as soon as one stored value is changed.
C21_EqualityOperator ==
    /\ last.op = "relational" =>
          /\ last.rel.eq <=>
                /\ size(v) = size(o)
                /\ \A i \in 1..Len(v) :
                      i <= Len(o) =>
                          /\ Equivalent(comp, v[i].first, o[i].first)
                          /\ v[i].second = o[i].second
          /\ last.rel.ne <=> ~last.rel.eq
          /\ comp = DefaultCompare => (last.rel.eq <=> v = o)
    /\ last.op = "copy_assign_to" =>
          /\ RelationsOf(Map(v, comp), Map(o, o_comp)).eq
          /\ ~RelationsOf(Map(v, comp), Map(o, o_comp)).ne
    /\ (/\ last.op = "index_assign"
        /\ RelationsOf(Map(last.pre, comp), Map(o, o_comp)).eq
        /\ HasKey(last.pre, last.key)
        /\ last.val # last.rval) =>
          /\ ~RelationsOf(Map(v, comp), Map(o, o_comp)).eq
          /\ RelationsOf(Map(v, comp), Map(o, o_comp)).ne

C21_Witness ==
    /\ last.op = "relational"
    /\ last.rel.eq
    /\ ~last.rel.ne
    /\ Len(v) = 2
    /\ v # o

\* entry x is before entry y: by key under a comparator in state c and,
\* when the keys are equivalent, by value
EntryBefore(c, x, y) ==
    \/ CompareWith(c, x.first, y.first)
    \/ Equivalent(c, x.first, y.first) /\ x.second < y.second

\* s1 is lexicographically before s2: after a common part of n entries that
\* tie, s1 ends and s2 goes on, or the next entry of s1 is before that of s2
LexBefore(c, s1, s2) ==
    \E n \in 0..Len(s1) :
        /\ n <= Len(s2)
        /\ \A i \in 1..n : ~EntryBefore(c, s1[i], s2[i]) /\ ~EntryBefore(c, s2[i], s1[i])
        /\ \/ n = Len(s1) /\ n < Len(s2)
           \/ n < Len(s1) /\ n < Len(s2) /\ EntryBefore(c, s1[n + 1], s2[n + 1])

\* C22: operator< on two maps is the lexicographic order of their entry
\* sequences, two entries comparing by key under the comparator and, when the
\* keys are equivalent, by value; a map whose entry sequence is a proper
\* prefix of another's is less than it; >, <=, >= are b<a, !(b<a), !(a<b), so
\* a map and its copy satisfy <= and >= but not < or >.
C22_LexicographicOrder ==
    /\ last.op = "relational" =>
          /\ last.rel.lt <=> LexBefore(comp, v, o)
          /\ last.rel.gt <=> LexBefore(o_comp, o, v)
          /\ last.rel.le <=> ~LexBefore(o_comp, o, v)
          /\ last.rel.ge <=> ~LexBefore(comp, v, o)
          /\ (Len(v) < Len(o) /\ v = SubSeq(o, 1, Len(v))) => last.rel.lt
          /\ v = o => (last.rel.le /\ last.rel.ge /\ ~last.rel.lt /\ ~last.rel.gt)
    /\ last.op = "copy_assign_to" =>
          LET rel == RelationsOf(Map(v, comp), Map(o, o_comp))
          IN rel.le /\ rel.ge /\ ~rel.lt /\ ~rel.gt

C22_Witness ==
    /\ last.op = "relational"
    /\ last.rel.lt
    /\ ~last.rel.ge
    /\ Len(v) = 2
    /\ Len(o) = 2
    /\ v[1] = o[1]
    /\ Equivalent(comp, v[2].first, o[2].first)
    /\ v[2].second < o[2].second

\* C30: the whole-container relational operators are mutually consistent: for
\* any two sorted maps with the same comparator (the values are integers,
\* totally ordered) exactly one of a<b, a==b, a>b holds, a<=b holds exactly
\* when a<b or a==b, a>=b exactly when a>b or a==b, and a!=b exactly when a<b
\* or a>b.
C30_RelationalOperatorsConsistent ==
    (last.op = "relational" /\ comp = o_comp /\ Sorted(v) /\ Sorted(o)) =>
        LET rel == last.rel
        IN /\ rel.lt \/ rel.eq \/ rel.gt
           /\ ~(rel.lt /\ rel.eq)
           /\ ~(rel.lt /\ rel.gt)
           /\ ~(rel.eq /\ rel.gt)
           /\ rel.le <=> (rel.lt \/ rel.eq)
           /\ rel.ge <=> (rel.gt \/ rel.eq)
           /\ rel.ne <=> (rel.lt \/ rel.gt)

C30_Witness ==
    /\ last.op = "relational"
    /\ comp = o_comp
    /\ Sorted(v)
    /\ Sorted(o)
    /\ last.rel.gt
    /\ last.rel.ge
    /\ last.rel.ne
    /\ ~last.rel.le
    /\ Len(v) = 3
    /\ Len(o) = 2

\* s stores a key equivalent to k under the comparator of the map
Stored(s, k) == \E i \in 1..Len(s) : Equivalent(comp, s[i].first, k)

\* C23: every key match (find, count, at, erase(key), insert, emplace,
\* operator[]) uses comparator equivalence !(a<b) && !(b<a) and never key
\* identity: when a stored key k and a different key value k' are equivalent
\* under the comparator, find(k') locates k's entry, erase(k') removes it and
\* reduces size by one, and insert / emplace of k' is rejected as a duplicate;
\* under a comparator that orders k and k' apart, erase(k') removes nothing.
C23_KeyMatchByEquivalence ==
    /\ \A k \in Keys :
          /\ Stored(v, k) =>
                /\ Find(v, k) # end(v)
                /\ Equivalent(comp, v[Find(v, k) + 1].first, k)
                /\ Count(v, k) = 1
                /\ ~AtImpl(v, k).fail
                /\ AtImpl(v, k).val = v[Find(v, k) + 1].second
          /\ ~Stored(v, k) =>
                /\ Find(v, k) = end(v)
                /\ Count(v, k) = 0
                /\ AtImpl(v, k).fail
    /\ last.op = "erase_key" =>
          /\ Stored(last.pre, last.key) =>
                /\ last.n = 1
                /\ size(v) = size(last.pre) - 1
                /\ ~Stored(v, last.key)
          /\ ~Stored(last.pre, last.key) =>
                /\ last.n = 0
                /\ v = last.pre
    /\ last.op \in {"insert", "emplace"} =>
          /\ Stored(last.pre, last.key) => (~last.flag /\ v = last.pre)
          /\ ~Stored(last.pre, last.key) => (last.flag /\ size(v) = size(last.pre) + 1)
    /\ last.op \in {"index_read", "index_assign"} =>
          /\ Stored(last.pre, last.key) => size(v) = size(last.pre)
          /\ ~Stored(last.pre, last.key) => size(v) = size(last.pre) + 1
    /\ last.op = "at" => (last.fail <=> ~Stored(last.pre, last.key))
    /\ (/\ last.op = "erase_key"
        /\ comp = DefaultCompare
        /\ \A i \in 1..Len(last.pre) : last.pre[i].first # last.key) =>
          /\ last.n = 0
          /\ v = last.pre

C23_Witness ==
    /\ last.op = "erase_key"
    /\ comp = CoarseCompare
    /\ last.n = 1
    /\ Len(last.pre) = 2
    /\ \A i \in 1..Len(last.pre) : last.pre[i].first # last.key
    /\ Len(v) = 1

\* the orders in which n entries can arrive
ArrivalOrders(n) == { p \in [1..n -> 1..n] : \A i, j \in 1..n : p[i] = p[j] => i = j }

\* emplace(key, value) called for each entry of rng in range order
RECURSIVE EmplaceEach(_, _)
EmplaceEach(s, rng) ==
    IF rng = <<>> THEN s
    ELSE EmplaceEach(EmplaceOf(s, Head(rng).first, Head(rng).second).v, Tail(rng))

\* C24: the final entry sequence depends only on the set of keys and the
\* comparator, not on arrival order: emplacing or inserting the same set of
\* distinct keys into an empty map in any permutation yields the same
\* iteration sequence, the comparator's ascending order of those keys.
C24_OrderIndependentOfArrival ==
    /\ \A i, j \in 1..Len(v) : i < j => Compare(v[i].first, v[j].first)
    /\ \A p \in ArrivalOrders(Len(v)) :
          LET arrival == [i \in 1..Len(v) |-> v[p[i]]]
          IN /\ EmplaceEach(<<>>, arrival) = v
             /\ InsertEach(<<>>, arrival) = v

C24_Witness ==
    /\ last.op = "emplace"
    /\ last.flag
    /\ comp = "greater"
    /\ Len(v) = 3
    /\ last.pos = 1
    /\ v[3].first < v[2].first

\* post is pre without the n entries that follow position first
Removed(pre, first, n, post) ==
    /\ Len(post) = Len(pre) - n
    /\ \A i \in 1..Len(post) : post[i] = (IF i <= first THEN pre[i] ELSE pre[i + n])

\* C25: erase(position) removes exactly the entry at that slot and
\* erase(first, last) exactly the entries in [first, last); every other entry
\* keeps its value and relative order, size drops by the number of removed
\* entries, and the returned position is the slot of the first removed entry,
\* which now holds the entry that followed the removed ones, or is end if
\* none followed.
C25_EraseByPosition ==
    /\ last.op = "erase_pos" =>
          /\ Removed(last.pre, last.hint, 1, v)
          /\ size(v) = size(last.pre) - 1
          /\ last.pos = last.hint
          /\ last.hint + 1 < Len(last.pre) => v[last.pos + 1] = last.pre[last.hint + 2]
          /\ last.hint + 1 = Len(last.pre) => last.pos = end(v)
    /\ last.op = "erase_range" =>
          /\ Removed(last.pre, last.hint, last.hint2 - last.hint, v)
          /\ size(v) = size(last.pre) - (last.hint2 - last.hint)
          /\ last.pos = last.hint
          /\ last.hint2 < Len(last.pre) => v[last.pos + 1] = last.pre[last.hint2 + 1]
          /\ last.hint2 = Len(last.pre) => last.pos = end(v)

C25_Witness ==
    /\ last.op = "erase_range"
    /\ Len(last.pre) = 3
    /\ last.hint = 0
    /\ last.hint2 = 2
    /\ v = <<last.pre[3]>>
    /\ last.pos = 0

\* C26: position handles do not survive structural mutation: a successful
\* insertion of key j moves every entry whose key is greater than j up by
\* exactly one slot and an erasure of key j moves them down by exactly one
\* slot, while entries with keys less than j keep their slot; a slot position
\* obtained for a key k > j before the mutation no longer designates k
\* afterwards, and find(k) re-derives it.
C26_PositionsShift ==
    /\ (last.op = "insert" /\ last.flag) =>
          \A k \in Keys :
              HasKey(last.pre, k) =>
                  LET before == Find(last.pre, k)
                      after == Find(v, k)
                  IN /\ Designates(last.pre, before, k)
                     /\ Designates(v, after, k)
                     /\ Compare(last.key, k) =>
                           /\ after = before + 1
                           /\ ~Designates(v, before, k)
                     /\ Compare(k, last.key) => after = before
    /\ (last.op = "erase_key" /\ last.n = 1) =>
          \A k \in Keys :
              (HasKey(last.pre, k) /\ ne_key(k, last.key)) =>
                  LET before == Find(last.pre, k)
                      after == Find(v, k)
                  IN /\ Designates(last.pre, before, k)
                     /\ Designates(v, after, k)
                     /\ Compare(last.key, k) =>
                           /\ after = before - 1
                           /\ ~Designates(v, before, k)
                     /\ Compare(k, last.key) => after = before

C26_Witness ==
    /\ last.op = "insert"
    /\ last.flag
    /\ Len(last.pre) = 2
    /\ last.pos = 1
    /\ Find(v, last.pre[2].first) = 2
    /\ Find(v, last.pre[1].first) = 0
    /\ ~Designates(v, 1, last.pre[2].first)

\* C27: move construction in part_002 (stdmap(stdmap&&) and
\* stdmap(stdmap&&, const Allocator&)) yields a map whose comparator orders
\* any two keys exactly as the source's comparator did, so the transferred
\* entries are strictly ascending under it and find(k) locates each of them.
C27_MoveConstructKeepsComparator ==
    (rev = "p2" /\ last.op \in {"move_construct", "move_construct_alloc"}) =>
        /\ \A a, b \in Keys :
               CompareWith(comp, a, b) = CompareWith(last.o_pre_comp, a, b)
        /\ v = last.o_pre
        /\ Sorted(v)
        /\ \A i \in 1..Len(v) : Find(v, v[i].first) = i - 1

\* C28: emplace_hint lets the caller detect insertion by comparing the result
\* with the hint: whenever the returned slot differs from the hint's, an entry
\* was inserted and size grew by one; whenever nothing is inserted, the
\* returned slot is the hint's own.
C28_InsertionDetectable ==
    last.op = "emplace_hint" =>
        /\ last.pos # last.hint =>
              /\ size(v) = size(last.pre) + 1
              /\ v[last.pos + 1] = Entry(last.key, last.val)
              /\ vec_erase(v, last.pos, last.pos + 1) = last.pre
        /\ size(v) = size(last.pre) => last.pos = last.hint

C28_Witness ==
    /\ last.op = "emplace_hint"
    /\ last.pos # last.hint
    /\ size(last.pre) = 2
    /\ size(v) = 3
    /\ v[last.pos + 1] = Entry(last.key, last.val)

\* C29: in part_002 the two hinted-insert overloads agree: for the same map
\* state, hint position and entry, insert(position, const value_type&) and the
\* forwarding insert(position, P&&) leave the map with the same entry sequence
\* and return a position holding the same key.
C29_HintedInsertOverloadsAgree ==
    (rev = "p2" /\ last.op = "insert_hint_forward" /\ Sorted(last.pre)) =>
        LET r == p2_insert_hint(last.pre, last.hint, Entry(last.key, last.val))
        IN /\ v = r.v
           /\ last.pos < Len(v)
           /\ r.pos < Len(r.v)
           /\ eq_key(v[last.pos + 1].first, r.v[r.pos + 1].first)

====
